---- MODULE Spec2Model ----
(***************************************************************************)
(* Model of the preference-mining pipeline of claude_code_transcripts:     *)
(* prompt classification and extraction (extract_prompts.py), merging of   *)
(* batch results and the persisted AnalysisResult (pattern_analyzer.py),   *)
(* interactive review and the batch shortcuts (review_cli.py) and the two  *)
(* Markdown renderers (knowledge_bank.py).                                 *)
(*                                                                         *)
(* Each component is checked under its own specification (SpecClassify,    *)
(* SpecExtract, SpecMerge, SpecReview, SpecQuick, SpecRender, SpecAnalyze, *)
(* SpecCollect); the variables of the components a specification does not *)
(* exercise keep their idle values.                                        *)
(***************************************************************************)
EXTENDS Integers, Sequences, FiniteSets, TLC

VARIABLES
    pc,              \* position of the running operation
    text,            \* classify_prompt: the argument
    ptype,           \* classify_prompt: the returned label
    session,         \* extract_user_prompts: what parse_session_file gives
    entry_i,         \* extract_user_prompts: index of the next log entry
    prompts,         \* extract_user_prompts: the prompts list
    failed_at,       \* extract_user_prompts: where an exception was caught (0: none)
    results,         \* merge_pattern_results: the raw batch results
    result,          \* the AnalysisResult in memory
    state_path,      \* review: the snapshot location argument (None or a path)
    all_categories,  \* review: the category choices computed at line 40
    idx,             \* review: index of the pattern being presented
    action,          \* review: the last answer of the action prompt
    snapshot,        \* the content of the snapshot file (NoFile when absent)
    output_path,     \* renderers: the output path argument
    content,         \* renderers: the returned document (sequence of lines)
    fs,              \* renderers: the file system under the output path
    all_prompts,     \* analyze_all_prompts: the prompts argument
    api_key,         \* analyze_all_prompts: the api_key argument, then the key in use
    environ,         \* os.environ.get("ANTHROPIC_API_KEY")
    anthropic,       \* whether the anthropic package was imported (else None)
    batch_size,      \* analyze_all_prompts: the batch_size argument
    progress_callback, \* analyze_all_prompts: None or a callable
    batches,         \* analyze_all_prompts: what batch_prompts returned
    batch_i,         \* analyze_all_prompts: the loop index i
    events,          \* the callback invocations and model calls, in order
    projects,        \* extract_all_prompts: what find_all_sessions returned
    limit,           \* extract_all_prompts: the limit argument
    project_i,       \* extract_all_prompts: position of the outer loop
    session_j,       \* extract_all_prompts: position of the inner loop
    session_count,   \* extract_all_prompts: the counter of line 156
    extracted,       \* the sessions handed to extract_user_prompts, in order
    yielded          \* the bundles the generator has yielded, in order

vars == <<pc, text, ptype, session, entry_i, prompts, failed_at, results, result,
          state_path, all_categories, idx, action, snapshot, output_path,
          content, fs, all_prompts, api_key, environ, anthropic, batch_size,
          progress_callback, batches, batch_i, events, projects, limit,
          project_i, session_j, session_count, extracted, yielded>>

classifyVars == <<text, ptype>>
extractVars  == <<session, entry_i, prompts, failed_at>>
mergeVars    == <<results>>
reviewVars   == <<state_path, all_categories, idx, action, snapshot>>
renderVars   == <<output_path, content, fs>>
analyzeVars  == <<all_prompts, api_key, environ, anthropic, batch_size,
                  progress_callback, batches, batch_i, events>>
collectVars  == <<projects, limit, project_i, session_j, session_count,
                  extracted, yielded>>

\* Python's None, and the values of the approved tri-state.
None    == "None"
PyTrue  == "True"
PyFalse == "False"

(***************************************************************************)
(* Bounds of the model.                                                    *)
(***************************************************************************)
MaxFrags == 2        \* fragments concatenated into one classified text
MaxEntries == 3      \* log entries of one session
MaxBatches == 3      \* raw batch results handed to the merger
MaxPatterns == 2     \* patterns of a reviewed or rendered AnalysisResult
MaxPrompts == 3      \* prompts handed to analyze_all_prompts
MaxBatchSize == 2    \* the batch_size argument
MaxSessions == 2     \* session files of one project
MaxLimit == 2        \* the limit argument of extract_all_prompts

(***************************************************************************)
(* Texts are sequences of one-character strings, so that the regular       *)
(* expressions of extract_prompts.py are matched character by character.   *)
(***************************************************************************)
UpperLetters == <<"A","B","C","D","E","F","G","H","I","J","K","L","M",
                  "N","O","P","Q","R","S","T","U","V","W","X","Y","Z">>
LowerLetters == <<"a","b","c","d","e","f","g","h","i","j","k","l","m",
                  "n","o","p","q","r","s","t","u","v","w","x","y","z">>

Range(s) == {s[i] : i \in DOMAIN s}

\* re.IGNORECASE: letters compare by their lower-case form.
Lower(c) ==
    IF c \in Range(UpperLetters)
    THEN LowerLetters[CHOOSE i \in DOMAIN UpperLetters : UpperLetters[i] = c]
    ELSE c

\* \s of a str pattern, and the characters str.strip() removes.
Whitespace == {" ", "\t", "\n", "\r", "\f"}
\* [,\s]
CommaOrSpace == {","} \cup Whitespace
\* \w, lower-cased
WordChars == Range(LowerLetters) \cup {"0","1","2","3","4","5","6","7","8","9","_"}

\* A compiled pattern is a set of alternatives, each a sequence of elements
\* [cs: the characters the element accepts, plus: whether it repeats (x+)].
Lit(s)  == [i \in 1..Len(s) |-> [cs |-> {s[i]}, plus |-> FALSE]]
One(cs) == <<[cs |-> cs, plus |-> FALSE]>>
Plus(cs) == <<[cs |-> cs, plus |-> TRUE]>>

CORRECTION_PATTERNS == <<
    [anchored |-> TRUE, alts |-> {
          Lit(<<"n", "o">>) \o One(CommaOrSpace)}],
    [anchored |-> TRUE, alts |-> {
          Lit(<<"a", "c", "t", "u", "a", "l", "l", "y">>) \o One(CommaOrSpace)}],
    [anchored |-> TRUE, alts |-> {
          Lit(<<"w", "a", "i", "t">>) \o One(CommaOrSpace)}],
    [anchored |-> TRUE, alts |-> {
          Lit(<<"s", "o", "r", "r", "y">>) \o One(CommaOrSpace)}],
    [anchored |-> FALSE, alts |-> {
          Lit(<<"c", "h", "a", "n", "g", "e", " ", "t", "h", "i", "s", " ", "t", "o">>),
          Lit(<<"c", "h", "a", "n", "g", "e", " ", "t", "h", "a", "t", " ", "t", "o">>),
          Lit(<<"c", "h", "a", "n", "g", "e", " ", "i", "t", " ", "t", "o">>)}],
    [anchored |-> FALSE, alts |-> {
          Lit(<<"i", "n", "s", "t", "e", "a", "d">>) \o One(CommaOrSpace)}],
    [anchored |-> TRUE, alts |-> {
          Lit(<<"n", "o", " ", "l", "i", "k", "e", " ", "t", "h", "a", "t">>),
          Lit(<<"n", "o", "t", " ", "l", "i", "k", "e", " ", "t", "h", "a", "t">>)}],
    [anchored |-> FALSE, alts |-> {
          Lit(<<"i", " ", "m", "e", "a", "n", "t">>)}],
    [anchored |-> FALSE, alts |-> {
          Lit(<<"t", "h", "a", "t", "'", "s", " ", "n", "o", "t", " ", "r", "i", "g", "h", "t">>),
          Lit(<<"t", "h", "a", "t", "'", "s", " ", "n", "o", "t", " ", "c", "o", "r", "r", "e", "c", "t">>),
          Lit(<<"t", "h", "a", "t", "'", "s", " ", "n", "o", "t", " ", "w", "h", "a", "t", " ", "i">>)}],
    [anchored |-> TRUE, alts |-> {
          Lit(<<"u", "n", "d", "o">>)}],
    [anchored |-> TRUE, alts |-> {
          Lit(<<"r", "e", "v", "e", "r", "t">>)}],
    [anchored |-> FALSE, alts |-> {
          Lit(<<"g", "o", " ", "b", "a", "c", "k", " ", "t", "o">>)}]
  >>

INSTRUCTION_PATTERNS == <<
    [anchored |-> FALSE, alts |-> {
          Lit(<<"a", "l", "w", "a", "y", "s">>) \o One(Whitespace)}],
    [anchored |-> FALSE, alts |-> {
          Lit(<<"n", "e", "v", "e", "r">>) \o One(Whitespace)}],
    [anchored |-> FALSE, alts |-> {
          Lit(<<"m", "a", "k", "e", " ", "s", "u", "r", "e", " ", "t", "o">>),
          Lit(<<"m", "a", "k", "e", " ", "s", "u", "r", "e", " ", "y", "o", "u">>)}],
    [anchored |-> FALSE, alts |-> {
          Lit(<<"d", "o", "n", "'", "t", " ", "f", "o", "r", "g", "e", "t">>)}],
    [anchored |-> FALSE, alts |-> {
          Lit(<<"r", "e", "m", "e", "m", "b", "e", "r", " ", "t", "o">>)}],
    [anchored |-> FALSE, alts |-> {
          Lit(<<"p", "r", "e", "f", "e", "r">>) \o One(Whitespace)}],
    [anchored |-> FALSE, alts |-> {
          Lit(<<"u", "s", "e">>) \o Plus(Whitespace) \o Plus(WordChars) \o Plus(Whitespace) \o Lit(<<"i", "n", "s", "t", "e", "a", "d", " ", "o", "f">>)}],
    [anchored |-> FALSE, alts |-> {
          Lit(<<"i", " ", "l", "i", "k", "e">>),
          Lit(<<"i", " ", "w", "a", "n", "t">>),
          Lit(<<"i", " ", "p", "r", "e", "f", "e", "r">>)}],
    [anchored |-> FALSE, alts |-> {
          Lit(<<"s", "h", "o", "u", "l", "d", " ", "b", "e">>),
          Lit(<<"s", "h", "o", "u", "l", "d", " ", "h", "a", "v", "e">>),
          Lit(<<"s", "h", "o", "u", "l", "d", " ", "u", "s", "e">>),
          Lit(<<"m", "u", "s", "t", " ", "b", "e">>),
          Lit(<<"m", "u", "s", "t", " ", "h", "a", "v", "e">>),
          Lit(<<"m", "u", "s", "t", " ", "u", "s", "e">>)}]
  >>

\* Whether elements k.. of alternative re match t from position i on.
RECURSIVE MatchHere(_, _, _, _)
MatchHere(re, k, t, i) ==
    IF k > Len(re) THEN TRUE
    ELSE /\ i <= Len(t)
         /\ Lower(t[i]) \in re[k].cs
         /\ \/ MatchHere(re, k + 1, t, i + 1)
            \/ re[k].plus /\ MatchHere(re, k, t, i + 1)

\* pattern.search(text): a match at the start for a pattern anchored with ^,
\* anywhere otherwise.
search(pattern, t) ==
    \E re \in pattern.alts :
        \E i \in (IF pattern.anchored THEN {1} ELSE 1..(Len(t) + 1)) :
            MatchHere(re, 1, t, i)

\* A classifier that tries the instruction rules first.
classify_prompt_InstructionFirst(t) ==
    IF t = <<>> THEN "general"
    ELSE IF \E k \in DOMAIN INSTRUCTION_PATTERNS : search(INSTRUCTION_PATTERNS[k], t)
         THEN "instruction"
    ELSE IF \E k \in DOMAIN CORRECTION_PATTERNS : search(CORRECTION_PATTERNS[k], t)
         THEN "correction"
    ELSE "general"

classify_prompt(t) ==
    IF t = <<>> THEN "general"
    ELSE IF \E k \in DOMAIN CORRECTION_PATTERNS : search(CORRECTION_PATTERNS[k], t)
         THEN "correction"
    ELSE IF \E k \in DOMAIN INSTRUCTION_PATTERNS : search(INSTRUCTION_PATTERNS[k], t)
         THEN "instruction"
    ELSE "general"

\* The texts handed to the classifier: up to MaxFrags fragments in a row.
Fragments == {
    <<"n", "o", ",">>,
    <<"N", "o", " ">>,
    <<"n", "o", "w", " ">>,
    <<"A", "C", "T", "U", "A", "L", "L", "Y", ",">>,
    <<"a", "l", "w", "a", "y", "s", " ">>,
    <<"N", "e", "v", "e", "r", "\t">>,
    <<"i", "n", "s", "t", "e", "a", "d">>,
    <<"i", "n", "s", "t", "e", "a", "d", " ", "o", "f">>,
    <<"u", "s", "e", " ", "t", "a", "b", "s", " ">>,
    <<"i", " ", "m", "e", "a", "n", "t">>,
    <<"I", " ", "p", "r", "e", "f", "e", "r">>,
    <<"m", "u", "s", "t", " ", "u", "s", "e">>,
    <<"u", "n", "d", "o">>,
    <<" ">>,
    <<"f", "i", "x", " ", "i", "t">>,
    <<"o", "k">>}

RECURSIVE TextsOf(_)
TextsOf(n) ==
    IF n = 0 THEN {<<>>}
    ELSE TextsOf(n - 1) \cup {t \o f : t \in TextsOf(n - 1), f \in Fragments}

Texts == TextsOf(MaxFrags)

(***************************************************************************)
(* Idle values of the components a specification does not exercise.        *)
(***************************************************************************)
EmptyResult ==
    [patterns |-> <<>>, custom_categories |-> <<>>,
     total_prompts_analyzed |-> 0, sessions_analyzed |-> 0]

\* A snapshot location nothing has been written to.
NoFile == [exists |-> FALSE, data |-> EmptyResult]

ClassifyIdle == text = <<>> /\ ptype = None
ExtractIdle  == session = [raises |-> FALSE, loglines |-> <<>>] /\ entry_i = 0 /\ prompts = <<>> /\ failed_at = 0
MergeIdle    == results = <<>>
ResultIdle   == result = EmptyResult
ReviewIdle   == /\ state_path = None /\ all_categories = <<>> /\ idx = 0
                /\ action = "unasked" /\ snapshot = NoFile
RenderIdle   == /\ output_path = None /\ content = <<>>
                /\ fs = [parent_exists |-> TRUE, written |-> FALSE, file |-> <<>>]
NoLimit      == [given |-> FALSE, n |-> 0]
AnalyzeIdle  == /\ all_prompts = <<>> /\ api_key = None /\ environ = None
                /\ anthropic = TRUE /\ batch_size = 100 /\ progress_callback = None
                /\ batches = <<>> /\ batch_i = 0 /\ events = <<>>
CollectIdle  == /\ projects = <<>> /\ limit = NoLimit /\ project_i = 0 /\ session_j = 0
                /\ session_count = 0 /\ extracted = <<>> /\ yielded = <<>>

(***************************************************************************)
(* SpecClassify: classify_prompt applied to one text.                      *)
(***************************************************************************)
InitClassify ==
    /\ pc = "classify"
    /\ text \in Texts
    /\ ptype = None
    /\ ExtractIdle /\ MergeIdle /\ AnalyzeIdle /\ CollectIdle /\ ResultIdle /\ ReviewIdle /\ RenderIdle

Classify ==
    /\ pc = "classify"
    /\ ptype' = classify_prompt(text)
    /\ pc' = "done"
    /\ UNCHANGED <<text, extractVars, mergeVars, analyzeVars, collectVars, result, reviewVars, renderVars>>

NextClassify == Classify

SpecClassify == InitClassify /\ [][NextClassify]_vars

\* t starts, case-insensitively, with the characters of p.
StartsWithCI(t, p) ==
    /\ Len(t) >= Len(p)
    /\ \A i \in 1..Len(p) : Lower(t[i]) = p[i]

\* t contains, case-insensitively, the characters of p.
ContainsCI(t, p) ==
    \E s \in 0..(Len(t) - Len(p)) : \A i \in 1..Len(p) : Lower(t[s + i]) = p[i]

MatchesCorrection(t) ==
    \E k \in DOMAIN CORRECTION_PATTERNS : search(CORRECTION_PATTERNS[k], t)

MatchesInstruction(t) ==
    \E k \in DOMAIN INSTRUCTION_PATTERNS : search(INSTRUCTION_PATTERNS[k], t)

\* C10: correction rules are checked before instruction rules: a classified
\* text matched by a correction rule is a correction whatever else matches it
\* (so is every text starting with "no," or "actually,", even one containing
\* "always"); matched by an instruction rule only, it is an instruction;
\* matched by no rule, or empty, it is general.
C10_CorrectionBeforeInstruction ==
    pc = "done" =>
        /\ MatchesCorrection(text) => ptype = "correction"
        /\ (~MatchesCorrection(text) /\ MatchesInstruction(text)) => ptype = "instruction"
        /\ (~MatchesCorrection(text) /\ ~MatchesInstruction(text)) => ptype = "general"
        /\ text = <<>> => ptype = "general"
        /\ (\/ StartsWithCI(text, <<"n", "o", ",">>)
            \/ StartsWithCI(text, <<"a", "c", "t", "u", "a", "l", "l", "y", ",">>))
           => ptype = "correction"

\* A text starting with "no," and containing "always" has been classified.
C10_Witness ==
    /\ pc = "done"
    /\ StartsWithCI(text, <<"n", "o", ",">>)
    /\ ContainsCI(text, <<"a", "l", "w", "a", "y", "s">>)
    /\ MatchesInstruction(text)
    /\ ptype = "correction"

(***************************************************************************)
(* SpecExtract: extract_user_prompts over one session.                     *)
(***************************************************************************)
MinPromptLen == 5

\* message.content: a string, or a list of blocks.
StrContent(t)   == [kind |-> "str", text |-> t, blocks |-> <<>>]
ListContent(bs) == [kind |-> "list", text |-> <<>>, blocks |-> bs]
ToolResultBlock == [type |-> "tool_result", text |-> <<>>]
TextBlock(t)    == [type |-> "text", text |-> t]

SampleTexts == {
    <<>>,
    <<"o", "k">>,
    <<"a", "b", "c", "d">>,
    <<"f", "i", "x", " ", "i", "t">>,
    <<"<", "x", ">", "a", "b">>,
    <<" ", "<", "x", ">", "a", "b">>,
    <<"n", "o", ",", " ", "a", "l", "w", "a", "y", "s", " ">>}

SampleContents ==
    {StrContent(t) : t \in SampleTexts} \cup
    {ListContent(<<>>),
     ListContent(<<ToolResultBlock>>),
     ListContent(<<TextBlock(<<"f", "i", "x", " ", "i", "t">>)>>),
     ListContent(<<ToolResultBlock, TextBlock(<<"f", "i", "x", " ", "i", "t">>)>>)}

\* The shapes of one log entry: a user entry with a message, a user entry
\* whose message is null (is_dict FALSE: message.get raises AttributeError),
\* and an entry of another type.
NullMessage == [is_dict |-> FALSE, content |-> StrContent(<<>>)]
Message(c)  == [is_dict |-> TRUE, content |-> c]

EntryShapes ==
    {[type |-> "user", message |-> Message(c)] : c \in SampleContents} \cup
    {[type |-> "user", message |-> NullMessage],
     [type |-> "assistant",
      message |-> Message(StrContent(<<"f", "i", "x", " ", "i", "t">>))]}

\* The entries of a session carry their position as timestamp.
Stamp(k) ==
    [i \in DOMAIN k |->
        [type |-> k[i].type, message |-> k[i].message, timestamp |-> i]]

\* What parse_session_file gives: it raises, or it returns the session's data.
ParseError == [raises |-> TRUE, loglines |-> <<>>]

Sessions ==
    {ParseError} \cup
    {[raises |-> FALSE, loglines |-> Stamp(k)] :
        k \in UNION {[1..m -> EntryShapes] : m \in 0..MaxEntries}}

\* extract_text_from_content: the plain text of a string content, the texts of
\* the text blocks of a structured one.
RECURSIVE JoinText(_)
JoinText(bs) ==
    IF bs = <<>> THEN <<>>
    ELSE (IF Head(bs).type = "text" THEN Head(bs).text ELSE <<>>) \o JoinText(Tail(bs))

extract_text_from_content(c) ==
    IF c.kind = "str" THEN c.text ELSE JoinText(c.blocks)

\* str.strip()
RECURSIVE lstrip(_)
lstrip(t) ==
    IF t # <<>> /\ Head(t) \in Whitespace THEN lstrip(Tail(t)) ELSE t

RECURSIVE rstrip(_)
rstrip(t) ==
    IF t # <<>> /\ t[Len(t)] \in Whitespace THEN rstrip(SubSeq(t, 1, Len(t) - 1)) ELSE t

strip(t) == rstrip(lstrip(t))

\* isinstance(content, list) and all(... b.get("type") == "tool_result" ...)
is_tool_result(c) ==
    c.kind = "list" /\ \A i \in DOMAIN c.blocks : c.blocks[i].type = "tool_result"

\* A length test that lets four-character texts through.
TooShort_OffByOne(t) == t = <<>> \/ Len(t) < MinPromptLen - 1

\* not text or len(text) < 5
TooShort(t) == t = <<>> \/ Len(t) < MinPromptLen

\* text.strip().startswith("<")
LooksLikeXml(t) == strip(t) # <<>> /\ Head(strip(t)) = "<"

\* What the loop body does with one entry: "skip" (continue), "raise" (an
\* exception leaves the loop) or "emit" (prompts.append).
EntryOutcome(entry) ==
    IF entry.type # "user" THEN "skip"
    ELSE IF ~entry.message.is_dict THEN "raise"
    ELSE IF is_tool_result(entry.message.content) THEN "skip"
    ELSE IF TooShort(extract_text_from_content(entry.message.content)) THEN "skip"
    ELSE IF LooksLikeXml(extract_text_from_content(entry.message.content)) THEN "skip"
    ELSE "emit"

PromptOf(entry) ==
    [text |-> extract_text_from_content(entry.message.content),
     type |-> classify_prompt(extract_text_from_content(entry.message.content)),
     timestamp |-> entry.timestamp]

\* A handler that throws the accumulated prompts away.
ExceptHandler_Reset(ps) == [propagates |-> FALSE, prompts |-> <<>>]

\* except Exception: pass, then return prompts
ExceptHandler(ps) == [propagates |-> FALSE, prompts |-> ps]

InitExtract ==
    /\ pc = "parse"
    /\ session \in Sessions
    /\ entry_i = 0
    /\ prompts = <<>>
    /\ failed_at = 0
    /\ ClassifyIdle /\ MergeIdle /\ AnalyzeIdle /\ CollectIdle /\ ResultIdle /\ ReviewIdle /\ RenderIdle

\* data = parse_session_file(session_path) raises: failed_at = -1.
ParseFails ==
    /\ pc = "parse"
    /\ session.raises
    /\ failed_at' = -1
    /\ prompts' = ExceptHandler(prompts).prompts
    /\ pc' = IF ExceptHandler(prompts).propagates THEN "raised" ELSE "done"
    /\ UNCHANGED <<session, entry_i, classifyVars, mergeVars, analyzeVars, collectVars, result, reviewVars, renderVars>>

ParseSession ==
    /\ pc = "parse"
    /\ ~session.raises
    /\ entry_i' = 1
    /\ pc' = "walk"
    /\ UNCHANGED <<session, prompts, failed_at, classifyVars, mergeVars, analyzeVars, collectVars, result,
                   reviewVars, renderVars>>

SkipEntry ==
    /\ pc = "walk"
    /\ entry_i <= Len(session.loglines)
    /\ EntryOutcome(session.loglines[entry_i]) = "skip"
    /\ entry_i' = entry_i + 1
    /\ UNCHANGED <<pc, session, prompts, failed_at, classifyVars, mergeVars, analyzeVars, collectVars, result,
                   reviewVars, renderVars>>

EmitEntry ==
    /\ pc = "walk"
    /\ entry_i <= Len(session.loglines)
    /\ EntryOutcome(session.loglines[entry_i]) = "emit"
    /\ prompts' = Append(prompts, PromptOf(session.loglines[entry_i]))
    /\ entry_i' = entry_i + 1
    /\ UNCHANGED <<pc, session, failed_at, classifyVars, mergeVars, analyzeVars, collectVars, result,
                   reviewVars, renderVars>>

EntryFails ==
    /\ pc = "walk"
    /\ entry_i <= Len(session.loglines)
    /\ EntryOutcome(session.loglines[entry_i]) = "raise"
    /\ failed_at' = entry_i
    /\ prompts' = ExceptHandler(prompts).prompts
    /\ pc' = IF ExceptHandler(prompts).propagates THEN "raised" ELSE "done"
    /\ UNCHANGED <<session, entry_i, classifyVars, mergeVars, analyzeVars, collectVars, result, reviewVars, renderVars>>

ReturnPrompts ==
    /\ pc = "walk"
    /\ entry_i > Len(session.loglines)
    /\ pc' = "done"
    /\ UNCHANGED <<session, entry_i, prompts, failed_at, classifyVars, mergeVars, analyzeVars, collectVars,
                   result, reviewVars, renderVars>>

NextExtract ==
    \/ ParseFails
    \/ ParseSession
    \/ SkipEntry
    \/ EmitEntry
    \/ EntryFails
    \/ ReturnPrompts

SpecExtract == InitExtract /\ [][NextExtract]_vars

\* C8, as stated: a failure while parsing or walking a session never
\* propagates and the session yields an empty prompt list, also when earlier
\* entries had already been accepted.
C8_FailureYieldsEmpty ==
    /\ pc # "raised"
    /\ (pc = "done" /\ failed_at # 0) => prompts = <<>>

\* C8, amended: the step at which a failure is caught returns (it does not
\* propagate) and leaves the prompts list as accumulated so far: empty when
\* parse_session_file failed, the prompts accepted before the failing entry
\* otherwise.
C8_FailureKeepsAccepted ==
    [][(failed_at = 0 /\ failed_at' # 0) =>
          /\ pc' = "done"
          /\ prompts' = prompts
          /\ (failed_at' = -1 => prompts' = <<>>)]_vars

\* A walk failed on a later entry after a prompt had been accepted.
C8_Witness ==
    /\ pc = "done"
    /\ failed_at > 1
    /\ prompts # <<>>

\* The (text, timestamp) pairs of the emitted prompts.
Emitted ==
    [i \in DOMAIN prompts |->
        [text |-> prompts[i].text, timestamp |-> prompts[i].timestamp]]

\* The (text, timestamp) pairs of the entries a test accepts, in entry order.
Expected(entries, Accept(_)) ==
    LET sel == SelectSeq(entries, Accept)
    IN  [i \in DOMAIN sel |->
            [text |-> extract_text_from_content(sel[i].message.content),
             timestamp |-> sel[i].timestamp]]

\* The entries C9 says are emitted.
ClaimedAccept(e) ==
    /\ e.type = "user"
    /\ e.message.is_dict
    /\ ~(/\ e.message.content.kind = "list"
         /\ \A i \in DOMAIN e.message.content.blocks :
                e.message.content.blocks[i].type = "tool_result")
    /\ LET t == extract_text_from_content(e.message.content)
       IN  t # <<>> /\ Len(t) >= 5 /\ t[1] # "<"

\* The same, the "<" test made on the text without its surrounding whitespace.
AmendedAccept(e) ==
    /\ e.type = "user"
    /\ e.message.is_dict
    /\ ~(/\ e.message.content.kind = "list"
         /\ \A i \in DOMAIN e.message.content.blocks :
                e.message.content.blocks[i].type = "tool_result")
    /\ LET t == extract_text_from_content(e.message.content)
       IN  /\ t # <<>> /\ Len(t) >= 5
           /\ \A k \in 1..Len(t) :
                 (\A j \in 1..(k - 1) : t[j] \in Whitespace) => t[k] # "<"

\* The entries the walk went through before it ended.
Walked ==
    IF failed_at > 0 THEN SubSeq(session.loglines, 1, failed_at - 1)
    ELSE session.loglines

\* C9, as stated: a walk that did not fail emits, in entry order and with the
\* entry's timestamp, exactly the user entries that are not pure tool results
\* and whose text is non-empty, at least 5 characters long and does not start
\* with "<"; no emitted text is shorter than 5 characters.
C9_EmitsExactlyClaimed ==
    (pc = "done" /\ failed_at = 0) =>
        /\ Emitted = Expected(session.loglines, ClaimedAccept)
        /\ \A i \in DOMAIN prompts : Len(prompts[i].text) >= 5

\* C9, amended: the returned list holds, in entry order and with the entry's
\* timestamp, exactly the entries walked before the walk ended (all of them
\* when nothing failed) that have type "user", are not pure tool results and
\* whose text is non-empty, at least 5 characters long and, once its leading
\* whitespace is removed, does not start with "<"; no emitted text is shorter
\* than 5 characters.
C9_EmitsExactlyAmended ==
    pc = "done" =>
        /\ Emitted = Expected(Walked, AmendedAccept)
        /\ \A i \in DOMAIN prompts : Len(prompts[i].text) >= 5

\* A finished walk that emitted a prompt, skipped a two-character text and
\* skipped a text whose "<" follows a blank.
C9_Witness ==
    /\ pc = "done"
    /\ failed_at = 0
    /\ prompts # <<>>
    /\ \E i \in DOMAIN session.loglines :
          /\ session.loglines[i].type = "user"
          /\ session.loglines[i].message.content = StrContent(<<"o", "k">>)
    /\ \E i \in DOMAIN session.loglines :
          /\ session.loglines[i].type = "user"
          /\ session.loglines[i].message.content =
                StrContent(<<" ", "<", "x", ">", "a", "b">>)

(***************************************************************************)
(* The AnalysisResult and its patterns (pattern_analyzer.py).              *)
(*                                                                         *)
(* A dict is an insertion-ordered sequence of [name, desc] pairs with      *)
(* unique names.                                                           *)
(***************************************************************************)
PREDEFINED_CATEGORIES == <<
    [name |-> "coding_style",   desc |-> "Naming conventions, formatting, code style preferences"],
    [name |-> "architecture",   desc |-> "File structure, design patterns, project organization"],
    [name |-> "testing",        desc |-> "Testing approaches, coverage expectations, test patterns"],
    [name |-> "documentation",  desc |-> "Comments, README, JSDoc, docstrings preferences"],
    [name |-> "workflow",       desc |-> "Git practices, PR conventions, commit style"],
    [name |-> "tools",          desc |-> "Preferred libraries, frameworks, dependencies"],
    [name |-> "communication",  desc |-> "How you prefer Claude to respond, verbosity, explanations"],
    [name |-> "error_handling", desc |-> "Exception handling, validation, error messages"],
    [name |-> "performance",    desc |-> "Optimization preferences, caching, efficiency"],
    [name |-> "ui_ux",          desc |-> "User interface patterns, design choices, accessibility"]
  >>

\* list(d.keys())
Keys(d) == [i \in DOMAIN d |-> d[i].name]

\* d[name] = desc: the value is replaced in place when the key exists, the
\* pair is appended otherwise.
DictSet(d, name, desc) ==
    IF \E i \in DOMAIN d : d[i].name = name
    THEN [i \in DOMAIN d |-> IF d[i].name = name THEN [name |-> name, desc |-> desc] ELSE d[i]]
    ELSE Append(d, [name |-> name, desc |-> desc])

\* Pattern(summary, examples, confidence, category), approved defaulting to None.
Pattern(summary, examples, confidence, category) ==
    [summary |-> summary, examples |-> examples, confidence |-> confidence,
     category |-> category, approved |-> None]

(***************************************************************************)
(* SpecMerge: merge_pattern_results over a list of raw batch results.      *)
(*                                                                         *)
(* A raw dict carries the set of keys it has; d.get(key, default) reads a  *)
(* field only when its key is present.                                     *)
(***************************************************************************)
Get(d, key, default) == IF key \in d.keys THEN d[key] ELSE default

RawPattern(keys, summary, examples, confidence, category) ==
    [keys |-> keys, summary |-> summary, examples |-> examples,
     confidence |-> confidence, category |-> category]

RawCategory(is_dict, keys, name, description) ==
    [is_dict |-> is_dict, keys |-> keys, name |-> name, description |-> description]

RawResult(keys, patterns, custom_categories) ==
    [keys |-> keys, patterns |-> patterns, custom_categories |-> custom_categories]

AllPatternKeys == {"summary", "examples", "confidence", "category"}

RawP1 == RawPattern(AllPatternKeys, "use camelCase", <<"e1">>, "high", "testing")
RawP2 == RawPattern(AllPatternKeys, "version the api", <<"e2">>, "medium", "api_design")
RawP3 == RawPattern({"summary"}, "write tests first", <<>>, "", "")

RawApiDesign1 == RawCategory(TRUE, {"name", "description"}, "api_design", "API shape")
RawApiDesign2 == RawCategory(TRUE, {"name", "description"}, "api_design", "API rules")
RawNoName     == RawCategory(TRUE, {"description"}, "", "nameless")
RawNotADict   == RawCategory(FALSE, {}, "", "")

\* The raw results analyze_prompts_batch can return: the sentinel of a reply
\* that did not parse, and parsed replies (one of which itself carries a
\* "parse_error" key beside its patterns).
RawResults == {
    RawResult({"raw_response", "parse_error"}, <<>>, <<>>),
    RawResult({"parse_error", "patterns"}, <<RawP1>>, <<>>),
    RawResult({"patterns", "custom_categories"}, <<RawP1, RawP2>>, <<RawApiDesign1>>),
    RawResult({"patterns", "custom_categories"}, <<RawP3>>, <<>>),
    RawResult({"patterns", "custom_categories"}, <<RawP1>>, <<RawApiDesign2, RawNotADict>>),
    RawResult({"patterns", "custom_categories"}, <<RawP2, RawP1>>, <<RawNoName>>),
    RawResult({}, <<>>, <<>>)}

\* A test that flags no result.
IsErrorSentinel_Never(r) == FALSE

\* "parse_error" in result
IsErrorSentinel(r) == "parse_error" \in r.keys

\* The inner loop over result.get("patterns", []).
RECURSIVE ExtractPatterns(_)
ExtractPatterns(ps) ==
    IF ps = <<>> THEN <<>>
    ELSE <<Pattern(Get(Head(ps), "summary", ""),
                   Get(Head(ps), "examples", <<>>),
                   Get(Head(ps), "confidence", "low"),
                   Get(Head(ps), "category", "general"))>>
         \o ExtractPatterns(Tail(ps))

\* The inner loop over result.get("custom_categories", []).
RECURSIVE ExtractCategories(_, _)
ExtractCategories(acc, cats) ==
    IF cats = <<>> THEN acc
    ELSE ExtractCategories(
             IF Head(cats).is_dict /\ Get(Head(cats), "name", "") # ""
             THEN DictSet(acc, Get(Head(cats), "name", ""),
                          Get(Head(cats), "description", ""))
             ELSE acc,
             Tail(cats))

\* The outer loop: all_patterns and all_custom_categories after the results rs.
RECURSIVE MergeLoop(_, _, _)
MergeLoop(all_patterns, all_custom_categories, rs) ==
    IF rs = <<>>
    THEN [patterns |-> all_patterns, custom_categories |-> all_custom_categories]
    ELSE IF IsErrorSentinel(Head(rs))
         THEN MergeLoop(all_patterns, all_custom_categories, Tail(rs))
         ELSE MergeLoop(
                  all_patterns \o ExtractPatterns(Get(Head(rs), "patterns", <<>>)),
                  ExtractCategories(all_custom_categories,
                                    Get(Head(rs), "custom_categories", <<>>)),
                  Tail(rs))

merge_pattern_results(rs) ==
    [patterns |-> MergeLoop(<<>>, <<>>, rs).patterns,
     custom_categories |-> MergeLoop(<<>>, <<>>, rs).custom_categories,
     total_prompts_analyzed |-> 0,
     sessions_analyzed |-> 0]

InitMerge ==
    /\ pc = "merge"
    /\ results \in UNION {[1..n -> RawResults] : n \in 0..MaxBatches}
    /\ ClassifyIdle /\ ExtractIdle /\ ResultIdle /\ ReviewIdle /\ RenderIdle
    /\ AnalyzeIdle /\ CollectIdle

Merge ==
    /\ pc = "merge"
    /\ result' = merge_pattern_results(results)
    /\ pc' = "done"
    /\ UNCHANGED <<classifyVars, extractVars, mergeVars, analyzeVars, collectVars, reviewVars, renderVars>>

NextMerge == Merge

SpecMerge == InitMerge /\ [][NextMerge]_vars

\* The number of patterns a raw result holds.
PatternCount(r) == IF "patterns" \in r.keys THEN Len(r.patterns) ELSE 0

\* The number of patterns the results before position b contribute, those
\* flagged with a parse error contributing none.
RECURSIVE Offset(_, _)
Offset(rs, b) ==
    IF b <= 1 THEN 0
    ELSE Offset(rs, b - 1)
         + (IF "parse_error" \in rs[b - 1].keys THEN 0 ELSE PatternCount(rs[b - 1]))

\* C5: the merged patterns are the patterns of the results not flagged with a
\* parse error, in batch order and within-batch order, each unset, none
\* dropped as a duplicate: their number is the sum of the non-error results'
\* pattern counts.
C5_MergeKeepsAllNonError ==
    pc = "done" =>
        /\ Len(result.patterns) = Offset(results, Len(results) + 1)
        /\ \A b \in DOMAIN results :
              "parse_error" \notin results[b].keys =>
                  \A j \in 1..PatternCount(results[b]) :
                      LET q == result.patterns[Offset(results, b) + j]
                          p == results[b].patterns[j]
                      IN  /\ q.approved = None
                          /\ q.summary = (IF "summary" \in p.keys THEN p.summary ELSE "")

\* [2 patterns, error sentinel, 1 pattern] has been merged into 3 patterns.
C5_Witness ==
    /\ pc = "done"
    /\ Len(results) = 3
    /\ PatternCount(results[1]) = 2 /\ "parse_error" \notin results[1].keys
    /\ "parse_error" \in results[2].keys
    /\ PatternCount(results[3]) = 1 /\ "parse_error" \notin results[3].keys
    /\ Len(result.patterns) = 3

(***************************************************************************)
(* Persistence: AnalysisResult.save and AnalysisResult.load.               *)
(***************************************************************************)
\* json.dump / json.load of the approved tri-state.
JsonOfApproved(a) ==
    CASE a = None    -> "null"
      [] a = PyTrue  -> "true"
      [] a = PyFalse -> "false"

ApprovedOfJson(j) ==
    CASE j = "null"  -> None
      [] j = "true"  -> PyTrue
      [] j = "false" -> PyFalse

\* Pattern.to_dict: asdict(self), all five fields.
Pattern_to_dict(p) ==
    [summary |-> p.summary, examples |-> p.examples, confidence |-> p.confidence,
     category |-> p.category, approved |-> p.approved]

\* Pattern.from_dict: cls(**data)
Pattern_from_dict(d) ==
    [summary |-> d.summary, examples |-> d.examples, confidence |-> d.confidence,
     category |-> d.category, approved |-> d.approved]

\* A to_dict that leaves the patterns still to review out.
AnalysisResult_to_dict_ReviewedOnly(r) ==
    [patterns |-> LET reviewed == SelectSeq(r.patterns, LAMBDA p : p.approved # None)
                  IN  [i \in DOMAIN reviewed |-> Pattern_to_dict(reviewed[i])],
     custom_categories |-> r.custom_categories,
     total_prompts_analyzed |-> r.total_prompts_analyzed,
     sessions_analyzed |-> r.sessions_analyzed]

AnalysisResult_to_dict(r) ==
    [patterns |-> [i \in DOMAIN r.patterns |-> Pattern_to_dict(r.patterns[i])],
     custom_categories |-> r.custom_categories,
     total_prompts_analyzed |-> r.total_prompts_analyzed,
     sessions_analyzed |-> r.sessions_analyzed]

AnalysisResult_from_dict(d) ==
    [patterns |-> [i \in DOMAIN d.patterns |-> Pattern_from_dict(d.patterns[i])],
     custom_categories |-> d.custom_categories,
     total_prompts_analyzed |-> d.total_prompts_analyzed,
     sessions_analyzed |-> d.sessions_analyzed]

\* The JSON document of a dict: None, True and False are written null, true
\* and false.
json_dump(d) ==
    [d EXCEPT !.patterns =
        [i \in DOMAIN d.patterns |->
            [d.patterns[i] EXCEPT !.approved = JsonOfApproved(@)]]]

json_load(doc) ==
    [doc EXCEPT !.patterns =
        [i \in DOMAIN doc.patterns |->
            [doc.patterns[i] EXCEPT !.approved = ApprovedOfJson(@)]]]

\* result.save(path): the file's content afterwards.
AnalysisResult_save(r) ==
    [exists |-> TRUE, data |-> json_dump(AnalysisResult_to_dict(r))]

\* AnalysisResult.load(path)
AnalysisResult_load(file) == AnalysisResult_from_dict(json_load(file.data))

(***************************************************************************)
(* The AnalysisResults handed to the review engine and to the renderers:   *)
(* up to MaxPatterns patterns, told apart by their summary and example.    *)
(***************************************************************************)
SummaryNames == <<"summary 1", "summary 2", "summary 3", "summary 4", "summary 5">>
ExampleNames == <<"example 1", "example 2", "example 3", "example 4", "example 5">>

PatternInputs(i) ==
    {[summary |-> SummaryNames[i], examples |-> <<ExampleNames[i]>>,
      confidence |-> c, category |-> g, approved |-> a] :
        c \in {"high", "low"},
        g \in {"testing", "api_design"},
        a \in {None, PyTrue, PyFalse}}

CustomCategoryInputs ==
    {<<>>, <<[name |-> "api_design", desc |-> "API shape"]>>}

\* The pattern lists of exactly m patterns.
RECURSIVE PatternSeqs(_)
PatternSeqs(m) ==
    IF m = 0 THEN {<<>>}
    ELSE {Append(ps, p) : ps \in PatternSeqs(m - 1), p \in PatternInputs(m)}

ResultInputs ==
    {[patterns |-> ps, custom_categories |-> cc,
      total_prompts_analyzed |-> 10 * Len(ps), sessions_analyzed |-> Len(ps)] :
        ps \in UNION {PatternSeqs(m) : m \in 0..MaxPatterns},
        cc \in CustomCategoryInputs}

(***************************************************************************)
(* SpecReview: one session of review_patterns_interactive.                 *)
(***************************************************************************)
\* A value Python takes as true in "if x:" (x a string or None).
Truthy(x) == x # None /\ x # ""

\* The answers the user gives to the prompts: None is a cancelled prompt.
SummaryAnswers  == {None, "", "edited summary"}
CategoryPicks   == {"architecture", "api_design", "security"}
NameAnswers     == {None, "", "security", "api_design"}
DescAnswers     == {None, "", "Security rules"}

\* A loop that goes on to the next pattern whatever its approval.
NextUnset_Any(ps, i) == IF i < Len(ps) THEN i + 1 ELSE 0

\* The for loop's "if pattern.approved is not None: continue": the index of
\* the first unset pattern after position i, 0 when the loop runs out.
NextUnset(ps, i) ==
    IF \E j \in (i + 1)..Len(ps) : ps[j].approved = None
    THEN CHOOSE j \in (i + 1)..Len(ps) :
             /\ ps[j].approved = None
             /\ \A k \in (i + 1)..(j - 1) : ps[k].approved # None
    ELSE 0

\* The result with field f of pattern i set to v.
WithPattern(r, i, f, v) ==
    [r EXCEPT !.patterns[i] = [r.patterns[i] EXCEPT ![f] = v]]

\* The "edit" branch.
ApplyEdit(r, i, new_summary) ==
    IF Truthy(new_summary) THEN WithPattern(r, i, "summary", new_summary) ELSE r

\* The "category" branch: new_cat is the answer of the select prompt, name and
\* desc the answers of the two text prompts that follow "(custom)".
ApplyCategory(r, i, new_cat, name, desc) ==
    IF new_cat = "(custom)"
    THEN IF Truthy(name)
         THEN WithPattern(
                  IF Truthy(desc)
                  THEN [r EXCEPT !.custom_categories = DictSet(@, name, desc)]
                  ELSE r,
                  i, "category", name)
         ELSE r
    ELSE IF Truthy(new_cat) THEN WithPattern(r, i, "category", new_cat) ELSE r

\* The final save (lines 113-114).
FinalSave(r) == IF state_path # None THEN AnalysisResult_save(r) ELSE snapshot

\* The loop goes to the next unset pattern, or runs out: final save, return.
LoopOn(r) ==
    IF NextUnset(r.patterns, idx) # 0
    THEN /\ idx' = NextUnset(r.patterns, idx)
         /\ pc' = "review"
         /\ snapshot' = snapshot
    ELSE /\ idx' = idx
         /\ pc' = "done"
         /\ snapshot' = FinalSave(r)

InitReview ==
    /\ pc = "idle"
    /\ result \in ResultInputs
    /\ state_path \in {None, "review_state.json"}
    /\ all_categories = <<>>
    /\ idx = 0
    /\ action = "unasked"
    /\ snapshot = NoFile
    /\ ClassifyIdle /\ ExtractIdle /\ MergeIdle /\ AnalyzeIdle /\ CollectIdle /\ RenderIdle

\* Lines 24-40: nothing to review returns at once; otherwise the choices are
\* computed and the first unset pattern is presented.
StartReview ==
    /\ pc = "idle"
    /\ IF \A i \in DOMAIN result.patterns : result.patterns[i].approved # None
       THEN /\ pc' = "done"
            /\ UNCHANGED <<all_categories, idx>>
       ELSE /\ pc' = "review"
            /\ all_categories' = Keys(PREDEFINED_CATEGORIES) \o Keys(result.custom_categories)
            /\ idx' = NextUnset(result.patterns, 0)
    /\ UNCHANGED <<result, state_path, action, snapshot,
                   classifyVars, extractVars, mergeVars, analyzeVars, collectVars, renderVars>>

Accept ==
    /\ pc = "review"
    /\ action' = "accept"
    /\ result' = WithPattern(result, idx, "approved", PyTrue)
    /\ LoopOn(WithPattern(result, idx, "approved", PyTrue))
    /\ UNCHANGED <<state_path, all_categories, classifyVars, extractVars, mergeVars, analyzeVars, collectVars, renderVars>>

Reject ==
    /\ pc = "review"
    /\ action' = "reject"
    /\ result' = WithPattern(result, idx, "approved", PyFalse)
    /\ LoopOn(WithPattern(result, idx, "approved", PyFalse))
    /\ UNCHANGED <<state_path, all_categories, classifyVars, extractVars, mergeVars, analyzeVars, collectVars, renderVars>>

EditSummary ==
    /\ pc = "review"
    /\ action' = "edit"
    /\ \E new_summary \in SummaryAnswers :
          /\ result' = ApplyEdit(result, idx, new_summary)
          /\ LoopOn(ApplyEdit(result, idx, new_summary))
    /\ UNCHANGED <<state_path, all_categories, classifyVars, extractVars, mergeVars, analyzeVars, collectVars, renderVars>>

ChangeCategory ==
    /\ pc = "review"
    /\ action' = "category"
    /\ \E new_cat \in (Range(all_categories) \cap CategoryPicks) \cup {"(custom)", None},
          name \in NameAnswers, desc \in DescAnswers :
          /\ result' = ApplyCategory(result, idx, new_cat, name, desc)
          /\ LoopOn(ApplyCategory(result, idx, new_cat, name, desc))
    /\ UNCHANGED <<state_path, all_categories, classifyVars, extractVars, mergeVars, analyzeVars, collectVars, renderVars>>

Skip ==
    /\ pc = "review"
    /\ action' = "skip"
    /\ LoopOn(result)
    /\ UNCHANGED <<result, state_path, all_categories,
                   classifyVars, extractVars, mergeVars, analyzeVars, collectVars, renderVars>>

\* "Save & exit", or the action prompt cancelled: save when a location was
\* given (line 74), break, final save (line 114), return.
SaveAndExit ==
    /\ pc = "review"
    /\ \E a \in {None, "save"} : action' = a
    /\ snapshot' = IF state_path # None THEN AnalysisResult_save(result) ELSE snapshot
    /\ pc' = "done"
    /\ UNCHANGED <<result, state_path, all_categories, idx,
                   classifyVars, extractVars, mergeVars, analyzeVars, collectVars, renderVars>>

NextReview ==
    \/ StartReview
    \/ Accept
    \/ Reject
    \/ EditSummary
    \/ ChangeCategory
    \/ Skip
    \/ SaveAndExit

SpecReview == InitReview /\ [][NextReview]_vars

\* C1: a review step changes a pattern's approved value only for the presented
\* pattern, only from unset, and only to true by Accept or to false by Reject;
\* Skip, Edit summary and Change category leave it unset; a pattern already
\* true or false is never presented and never changed; no pattern is removed
\* or reordered.
C1_ApprovalMonotonic ==
    [][/\ Len(result'.patterns) = Len(result.patterns)
       /\ \A k \in DOMAIN result.patterns :
             LET p == result.patterns[k]
                 q == result'.patterns[k]
             IN  /\ q.examples = p.examples
                 /\ q.confidence = p.confidence
                 /\ p.approved # None => q = p
                 /\ q.approved # p.approved =>
                       /\ pc = "review" /\ k = idx
                       /\ \/ action' = "accept" /\ q.approved = PyTrue
                          \/ action' = "reject" /\ q.approved = PyFalse
       /\ (pc = "review" /\ action' \in {"skip", "edit", "category"}) =>
             result'.patterns[idx].approved = None
       /\ pc' = "review" => result'.patterns[idx'].approved = None
      ]_vars

\* A session in which a pattern was accepted while a decided pattern before it
\* was passed over.
C1_Witness ==
    /\ pc = "done"
    /\ action = "accept"
    /\ idx > 1
    /\ result.patterns[idx].approved = PyTrue
    /\ result.patterns[1].approved = PyFalse

\* C2: with a snapshot location given, Save (or the cancelled action prompt)
\* ends the session at once, leaves the result as it is and writes all of it:
\* loading the snapshot gives exactly the in-memory result, every pattern in
\* order with its approved value, decided or not, the custom categories and
\* both counts.
C2_SaveWritesAllAndHalts ==
    [][(pc = "review" /\ action' \in {None, "save"}) =>
          /\ pc' = "done"
          /\ result' = result
          /\ state_path # None =>
                /\ snapshot'.exists
                /\ AnalysisResult_load(snapshot') = result
                /\ Len(snapshot'.data.patterns) = Len(result.patterns)
                /\ \A k \in DOMAIN result.patterns :
                      snapshot'.data.patterns[k].approved =
                          (IF result.patterns[k].approved = None THEN "null"
                           ELSE IF result.patterns[k].approved = PyTrue THEN "true"
                           ELSE "false")
      ]_vars

\* A session saved after one pattern was rejected and before the next, still
\* unset, was decided.
C2_Witness ==
    /\ pc = "done"
    /\ action = "save"
    /\ state_path # None
    /\ idx = 2
    /\ result.patterns[1].approved = PyFalse
    /\ result.patterns[2].approved = None
    /\ snapshot.exists
    /\ snapshot.data.patterns[1].approved = "false"
    /\ snapshot.data.patterns[2].approved = "null"

\* C7: when Change category takes a new custom category name, the name is a
\* key of custom_categories from then on and is among the choices offered for
\* the patterns presented next.
C7_NewCategoryOfferedAtOnce ==
    [][(/\ pc = "review" /\ action' = "category"
        /\ result'.patterns[idx].category # result.patterns[idx].category
        /\ result'.patterns[idx].category \notin Range(Keys(PREDEFINED_CATEGORIES))
        /\ result'.patterns[idx].category \notin Range(Keys(result.custom_categories)))
       => /\ result'.patterns[idx].category \in Range(Keys(result'.custom_categories))
          /\ pc' = "review" => result'.patterns[idx].category \in Range(all_categories')
      ]_vars

(***************************************************************************)
(* SpecQuick: the batch shortcuts quick_approve_all and                    *)
(* quick_approve_high_confidence, applied any number of times.             *)
(***************************************************************************)
quick_approve_all(r) ==
    [r EXCEPT !.patterns =
        [i \in DOMAIN r.patterns |->
            IF r.patterns[i].approved = None
            THEN [r.patterns[i] EXCEPT !.approved = PyTrue]
            ELSE r.patterns[i]]]

\* A shortcut that forgets the confidence test.
quick_approve_high_confidence_AnyConfidence(r) ==
    [r EXCEPT !.patterns =
        [i \in DOMAIN r.patterns |->
            IF r.patterns[i].approved = None
            THEN [r.patterns[i] EXCEPT !.approved = PyTrue]
            ELSE r.patterns[i]]]

quick_approve_high_confidence(r) ==
    [r EXCEPT !.patterns =
        [i \in DOMAIN r.patterns |->
            IF r.patterns[i].approved = None /\ r.patterns[i].confidence = "high"
            THEN [r.patterns[i] EXCEPT !.approved = PyTrue]
            ELSE r.patterns[i]]]

InitQuick ==
    /\ pc = "idle"
    /\ result \in ResultInputs
    /\ state_path = None /\ all_categories = <<>> /\ idx = 0
    /\ action = "unasked" /\ snapshot = NoFile
    /\ ClassifyIdle /\ ExtractIdle /\ MergeIdle /\ AnalyzeIdle /\ CollectIdle /\ RenderIdle

QuickApproveAll ==
    /\ pc = "idle"
    /\ action' = "quick_approve_all"
    /\ result' = quick_approve_all(result)
    /\ UNCHANGED <<pc, state_path, all_categories, idx, snapshot,
                   classifyVars, extractVars, mergeVars, analyzeVars, collectVars, renderVars>>

QuickApproveHighConfidence ==
    /\ pc = "idle"
    /\ action' = "quick_approve_high_confidence"
    /\ result' = quick_approve_high_confidence(result)
    /\ UNCHANGED <<pc, state_path, all_categories, idx, snapshot,
                   classifyVars, extractVars, mergeVars, analyzeVars, collectVars, renderVars>>

NextQuick ==
    \/ QuickApproveAll
    \/ QuickApproveHighConfidence

SpecQuick == InitQuick /\ [][NextQuick]_vars

\* C6: a shortcut changes nothing but the approved value of unset patterns:
\* quick_approve_all sets every unset pattern to true, and
\* quick_approve_high_confidence exactly the unset patterns of confidence high;
\* every other approved value, and every summary, category, example, the
\* order, the custom categories and the counts stay; applying the shortcut
\* again to its own result changes nothing.
C6_ShortcutsOnlyApproveUnset ==
    [][/\ Len(result'.patterns) = Len(result.patterns)
       /\ result'.custom_categories = result.custom_categories
       /\ result'.total_prompts_analyzed = result.total_prompts_analyzed
       /\ result'.sessions_analyzed = result.sessions_analyzed
       /\ \A k \in DOMAIN result.patterns :
             LET p == result.patterns[k]
                 q == result'.patterns[k]
             IN  /\ q.summary = p.summary /\ q.category = p.category
                 /\ q.examples = p.examples /\ q.confidence = p.confidence
                 /\ action' = "quick_approve_all" =>
                       q.approved = (IF p.approved = None THEN PyTrue ELSE p.approved)
                 /\ action' = "quick_approve_high_confidence" =>
                       q.approved = (IF p.approved = None /\ p.confidence = "high"
                                     THEN PyTrue ELSE p.approved)
       /\ action' = "quick_approve_all" => quick_approve_all(result') = result'
       /\ action' = "quick_approve_high_confidence" =>
             quick_approve_high_confidence(result') = result'
      ]_vars

\* quick_approve_high_confidence has approved a high-confidence pattern and
\* left an unset low-confidence pattern and a rejected pattern as they were.
C6_Witness ==
    /\ action = "quick_approve_high_confidence"
    /\ \E i, j \in DOMAIN result.patterns :
          /\ result.patterns[i].confidence = "low"
          /\ result.patterns[i].approved = None
          /\ result.patterns[j].confidence = "high"
          /\ result.patterns[j].approved = PyTrue

(***************************************************************************)
(* SpecRender: generate_knowledge_bank and generate_claude_md.             *)
(*                                                                         *)
(* A document is the sequence of its lines (the code joins them with       *)
(* "\n"); the three confidence glyphs are written [green], [yellow] and    *)
(* [white].                                                                *)
(***************************************************************************)
MaxExamples == 3
MaxExampleLen == 100
KeptExampleLen == 97

GlyphHigh   == "[green]"
GlyphMedium == "[yellow]"
GlyphLow    == "[white]"

\* datetime.now().strftime('%Y-%m-%d %H:%M')
Now == "2026-01-01 00:00"

\* The character at position i of a string.
CharAt(str, i) == SubSeq(str, i, i)

IsLetter(c) == c \in Range(UpperLetters) \cup Range(LowerLetters)

Upper(c) ==
    IF c \in Range(LowerLetters)
    THEN UpperLetters[CHOOSE i \in DOMAIN LowerLetters : LowerLetters[i] = c]
    ELSE c

\* category.replace("_", " ").title(): characters 1..n of the result.
RECURSIVE TitleUpTo(_, _)
TitleUpTo(str, n) ==
    IF n = 0 THEN ""
    ELSE LET c    == IF CharAt(str, n) = "_" THEN " " ELSE CharAt(str, n)
             prev == IF n = 1 THEN " " ELSE CharAt(str, n - 1)
         IN  TitleUpTo(str, n - 1) \o (IF IsLetter(prev) THEN Lower(c) ELSE Upper(c))

Title(category) == TitleUpTo(category, Len(category))

\* d.get(name, ""), d a dict.
DictGet(d, name) ==
    IF \E i \in DOMAIN d : d[i].name = name
    THEN d[CHOOSE i \in DOMAIN d : d[i].name = name].desc
    ELSE ""

\* The categories of the patterns ps in the order they are first met: the
\* keys of patterns_by_category.
RECURSIVE CategoriesMet(_)
CategoriesMet(ps) ==
    IF ps = <<>> THEN <<>>
    ELSE LET before == CategoriesMet(SubSeq(ps, 1, Len(ps) - 1))
         IN  IF ps[Len(ps)].category \in Range(before) THEN before
             ELSE Append(before, ps[Len(ps)].category)

\* patterns_by_category[category]
InCategory(ps, category) == SelectSeq(ps, LAMBDA p : p.category = category)

\* sorted(names) over the category names that are not predefined: the names in
\* alphabetical order.
AlphabeticalOrder == <<"api_design", "general", "security">>

sorted(names) == SelectSeq(AlphabeticalOrder, LAMBDA n : n \in names)

\* confidence_order.get(p.confidence, 3)
ConfidenceRank(c) ==
    CASE c = "high"   -> 0
      [] c = "medium" -> 1
      [] c = "low"    -> 2
      [] OTHER        -> 3

\* patterns.sort(key=...): a stable sort by rank.
SortByConfidence(ps) ==
    SelectSeq(ps, LAMBDA p : ConfidenceRank(p.confidence) = 0) \o
    SelectSeq(ps, LAMBDA p : ConfidenceRank(p.confidence) = 1) \o
    SelectSeq(ps, LAMBDA p : ConfidenceRank(p.confidence) = 2) \o
    SelectSeq(ps, LAMBDA p : ConfidenceRank(p.confidence) = 3)

ConfidenceGlyph(c) ==
    CASE c = "high"   -> GlyphHigh
      [] c = "medium" -> GlyphMedium
      [] OTHER        -> GlyphLow

\* Flattening of a sequence of line sequences.
RECURSIVE Flatten(_)
Flatten(ss) == IF ss = <<>> THEN <<>> ELSE Head(ss) \o Flatten(Tail(ss))

ExampleLine(example) ==
    "  - _\"" \o (IF Len(example) > MaxExampleLen
                  THEN SubSeq(example, 1, KeptExampleLen) \o "..."
                  ELSE example) \o "\"_"

\* The lines of one pattern of the knowledge bank.
PatternLines(p) ==
    <<"- **" \o p.summary \o "** " \o ConfidenceGlyph(p.confidence)>>
    \o [i \in 1..(IF Len(p.examples) < MaxExamples THEN Len(p.examples) ELSE MaxExamples) |->
           ExampleLine(p.examples[i])]
    \o <<"">>

\* The section of one category of the knowledge bank.
SectionLines(r, ps, category) ==
    <<"## " \o Title(category)>>
    \o (LET category_desc ==
                IF category \in Range(Keys(r.custom_categories))
                THEN DictGet(r.custom_categories, category)
                ELSE DictGet(PREDEFINED_CATEGORIES, category)
        IN  IF category_desc # "" THEN <<"*" \o category_desc \o "*">> ELSE <<>>)
    \o <<"">>
    \o Flatten([i \in DOMAIN SortByConfidence(InCategory(ps, category)) |->
                   PatternLines(SortByConfidence(InCategory(ps, category))[i])])

KnowledgeBankHeader(r) ==
    <<"# My Claude Patterns",
      "",
      "> Auto-generated from " \o ToString(r.sessions_analyzed) \o " sessions",
      "> " \o ToString(r.total_prompts_analyzed) \o " prompts analyzed",
      "> Last updated: " \o Now,
      "">>

KnowledgeBankPlaceholder ==
    "*No patterns discovered yet. Run more sessions to build your knowledge bank.*"

\* A selection that keeps the approved patterns only.
KnowledgeBankSelects_ApprovedOnly(p) == p.approved = PyTrue

\* p.approved is None or p.approved is True
KnowledgeBankSelects(p) == p.approved = None \/ p.approved = PyTrue

\* The document generate_knowledge_bank builds.
KnowledgeBankLines(r) ==
    LET approved_patterns == SelectSeq(r.patterns, KnowledgeBankSelects)
        met == CategoriesMet(approved_patterns)
        predefined_order == Keys(PREDEFINED_CATEGORIES)
        ordered_cats ==
            SelectSeq(predefined_order, LAMBDA c : c \in Range(met))
            \o sorted({c \in Range(met) : c \notin Range(predefined_order)})
    IN  IF approved_patterns = <<>>
        THEN KnowledgeBankHeader(r) \o <<KnowledgeBankPlaceholder>>
        ELSE KnowledgeBankHeader(r)
             \o Flatten([i \in DOMAIN ordered_cats |->
                            SectionLines(r, approved_patterns, ordered_cats[i])])
             \o <<"---",
                  "",
                  "**Confidence:** " \o GlyphHigh \o " High (3+ occurrences) | "
                      \o GlyphMedium \o " Medium (2 occurrences) | "
                      \o GlyphLow \o " Low (inferred)">>

ClaudeMdHeader ==
    <<"# Project Preferences",
      "",
      "<!-- Auto-generated from Claude Code session analysis -->",
      "">>

ClaudeMdPlaceholder == "*No high-confidence patterns discovered yet.*"

\* (p.approved is None or p.approved is True) and p.confidence == "high"
ClaudeMdSelects(p) ==
    (p.approved = None \/ p.approved = PyTrue) /\ p.confidence = "high"

\* The section of one category of the compact file.
ClaudeMdSection(ps, category) ==
    <<"## " \o Title(category), "">>
    \o [i \in DOMAIN InCategory(ps, category) |-> "- " \o InCategory(ps, category)[i].summary]
    \o <<"">>

\* The document generate_claude_md builds.
ClaudeMdLines(r) ==
    LET high_confidence == SelectSeq(r.patterns, ClaudeMdSelects)
        met == CategoriesMet(high_confidence)
    IN  IF high_confidence = <<>>
        THEN ClaudeMdHeader \o <<ClaudeMdPlaceholder>>
        ELSE ClaudeMdHeader
             \o Flatten([i \in DOMAIN met |-> ClaudeMdSection(high_confidence, met[i])])

\* The output_path argument: None, a Path, or a plain string.
PathArg == "Path('out/patterns.md')"
StrArg  == "'out/patterns.md'"

\* if output_path: output_path.write_text(content) -- the placeholder branches:
\* a plain string has no write_text (AttributeError), and writing under a
\* missing parent directory raises FileNotFoundError.
WritePlain(path, files, lines) ==
    IF path = None THEN [raises |-> FALSE, fs |-> files]
    ELSE IF path = StrArg \/ ~files.parent_exists THEN [raises |-> TRUE, fs |-> files]
    ELSE [raises |-> FALSE,
          fs |-> [files EXCEPT !.written = TRUE, !.file = lines]]

\* if output_path: Path(output_path), parent.mkdir(parents=True,
\* exist_ok=True), write_text(content) -- the other branches.
WriteWithParents(path, files, lines) ==
    IF path = None THEN [raises |-> FALSE, fs |-> files]
    ELSE [raises |-> FALSE,
          fs |-> [parent_exists |-> TRUE, written |-> TRUE, file |-> lines]]

InitRender ==
    /\ pc = "idle"
    /\ result \in ResultInputs
    /\ output_path \in {None, PathArg, StrArg}
    /\ content = <<>>
    /\ fs \in {[parent_exists |-> e, written |-> FALSE, file |-> <<>>] : e \in BOOLEAN}
    /\ ClassifyIdle /\ ExtractIdle /\ MergeIdle /\ AnalyzeIdle /\ CollectIdle /\ ReviewIdle

GenerateKnowledgeBank ==
    /\ pc = "idle"
    /\ LET lines == KnowledgeBankLines(result)
           w == IF SelectSeq(result.patterns, KnowledgeBankSelects) = <<>>
                THEN WritePlain(output_path, fs, lines)
                ELSE WriteWithParents(output_path, fs, lines)
       IN  /\ fs' = w.fs
           /\ pc' = IF w.raises THEN "kb_raised" ELSE "kb_returned"
           /\ content' = IF w.raises THEN content ELSE lines
    /\ UNCHANGED <<result, output_path, classifyVars, extractVars, mergeVars, analyzeVars, collectVars, reviewVars>>

GenerateClaudeMd ==
    /\ pc = "idle"
    /\ LET lines == ClaudeMdLines(result)
           w == IF SelectSeq(result.patterns, ClaudeMdSelects) = <<>>
                THEN WritePlain(output_path, fs, lines)
                ELSE WriteWithParents(output_path, fs, lines)
       IN  /\ fs' = w.fs
           /\ pc' = IF w.raises THEN "md_raised" ELSE "md_returned"
           /\ content' = IF w.raises THEN content ELSE lines
    /\ UNCHANGED <<result, output_path, classifyVars, extractVars, mergeVars, analyzeVars, collectVars, reviewVars>>

NextRender ==
    \/ GenerateKnowledgeBank
    \/ GenerateClaudeMd

SpecRender == InitRender /\ [][NextRender]_vars

\* A line is a category header.
IsCategoryHeader(line) == Len(line) >= 3 /\ SubSeq(line, 1, 3) = "## "

\* C3: the compact preference file lists a pattern's summary if and only if
\* the pattern is approved (true) and of confidence high; a pattern unset or
\* rejected is never listed; when no pattern qualifies the document ends with
\* the placeholder line and lists nothing.
C3_CompactListsApprovedHighOnly ==
    pc = "md_returned" =>
        /\ \A k \in DOMAIN result.patterns :
              ("- " \o result.patterns[k].summary) \in Range(content)
              <=> (/\ result.patterns[k].approved = PyTrue
                   /\ result.patterns[k].confidence = "high")
        /\ (\A k \in DOMAIN result.patterns :
               ~(/\ result.patterns[k].approved = PyTrue
                 /\ result.patterns[k].confidence = "high"))
           => /\ content[Len(content)] = "*No high-confidence patterns discovered yet.*"
              /\ \A i \in DOMAIN content : ~IsCategoryHeader(content[i])

\* C4: the knowledge bank renders a pattern if and only if its approved value
\* is true or unset; when every pattern is rejected, or there is none, the
\* document is the header followed by the placeholder line, with no category
\* header.
C4_KnowledgeBankExcludesOnlyRejected ==
    pc = "kb_returned" =>
        /\ \A k \in DOMAIN result.patterns :
              (\E g \in {"[green]", "[yellow]", "[white]"} :
                  ("- **" \o result.patterns[k].summary \o "** " \o g) \in Range(content))
              <=> result.patterns[k].approved \in {None, PyTrue}
        /\ (\A k \in DOMAIN result.patterns : result.patterns[k].approved = PyFalse)
           => /\ Len(content) = 7
              /\ content[1] = "# My Claude Patterns"
              /\ content[7] =
                    "*No patterns discovered yet. Run more sessions to build your knowledge bank.*"
              /\ \A i \in DOMAIN content : ~IsCategoryHeader(content[i])

\* A knowledge bank rendered from a rejected and an unset pattern.
C4_Witness ==
    /\ pc = "kb_returned"
    /\ \E i, j \in DOMAIN result.patterns :
          /\ result.patterns[i].approved = PyFalse
          /\ result.patterns[j].approved = None
          /\ \E n \in DOMAIN content : IsCategoryHeader(content[n])

\* A knowledge bank rendered from rejected patterns only.
C4_WitnessAllRejected ==
    /\ pc = "kb_returned"
    /\ Len(result.patterns) = 2
    /\ \A k \in DOMAIN result.patterns : result.patterns[k].approved = PyFalse

\* C12: whenever an output path is supplied, both renderers write the rendered
\* document to that path, creating missing parent directories first, on every
\* rendering path, the placeholder one included: the call returns, the parent
\* directory exists and the file holds the returned document.
C12_OutputAlwaysWritten ==
    (pc \in {"kb_returned", "kb_raised", "md_returned", "md_raised"}
        /\ output_path # None)
    => /\ pc \in {"kb_returned", "md_returned"}
       /\ fs.parent_exists
       /\ fs.written
       /\ fs.file = content

\* C13: in every AnalysisResult obtained by merging batch results, each
\* pattern's category is a key of the predefined category table or a key of
\* custom_categories, the categories the Merger defaulted and those the model
\* reported without declaring them included.
C13_CategoryIsKnownKey ==
    pc = "done" =>
        \A k \in DOMAIN result.patterns :
            result.patterns[k].category
                \in Range(Keys(PREDEFINED_CATEGORIES)) \cup Range(Keys(result.custom_categories))

\* The review half of the same invariant: a review step that gives the
\* presented pattern another category gives it a key of the predefined table
\* or of custom_categories.
C13_ReviewKeepsCategoryKnown ==
    [][(/\ pc = "review" /\ action' = "category"
        /\ result'.patterns[idx].category # result.patterns[idx].category)
       => result'.patterns[idx].category
              \in Range(Keys(PREDEFINED_CATEGORIES)) \cup Range(Keys(result'.custom_categories))
      ]_vars

(***************************************************************************)
(* SpecAnalyze: analyze_all_prompts -- batching, one model call per batch, *)
(* the parsing of each reply, the merge of the batch results.              *)
(***************************************************************************)
\* The prompt dicts collect_prompts_for_analysis builds.
SessionIds == {"s1", "s2"}

AnalysisPrompt(k, sid) ==
    [text |-> "prompt " \o ToString(k), type |-> "general",
     project |-> "proj", session_id |-> sid]

PromptLists ==
    UNION {{[k \in 1..n |-> AnalysisPrompt(k, f[k])] : f \in [1..n -> SessionIds]}
           : n \in 0..MaxPrompts}

\* The api_key argument and the ANTHROPIC_API_KEY variable.
Credentials == {<<"sk-arg", None>>, <<None, "sk-env">>, <<None, None>>}

\* get_api_key()
get_api_key(env) ==
    IF ~Truthy(env) THEN [raises |-> TRUE, key |-> None]
    ELSE [raises |-> FALSE, key |-> env]

\* prompts[a:b]
Slice(ps, a, b) == SubSeq(ps, a + 1, IF b < Len(ps) THEN b ELSE Len(ps))

\* for i in range(i, len(prompts), batch_size): batches.append(prompts[i:i + batch_size])
RECURSIVE BatchesFrom(_, _, _)
BatchesFrom(ps, size, i) ==
    IF i >= Len(ps) THEN <<>>
    ELSE <<Slice(ps, i, i + size)>> \o BatchesFrom(ps, size, i + size)

\* A batching that loses a last batch shorter than batch_size.
batch_prompts_FullOnly(ps, size) ==
    SelectSeq(BatchesFrom(ps, size, 0), LAMBDA b : Len(b) = size)

batch_prompts(ps, size) == BatchesFrom(ps, size, 0)

\* The text of a model reply, as a sequence of pieces: a fence opening a json
\* block (three backticks and the word json), a bare fence (three backticks),
\* a line break, prose, or the text of one JSON value.
NoValue     == RawResult({}, <<>>, <<>>)
Piece(kind) == [kind |-> kind, value |-> NoValue]
FenceJson   == Piece("fence_json")
Fence       == Piece("fence")
Newline     == Piece("\n")
Prose       == Piece("Here are the patterns I found:")
Json(v)     == [kind |-> "json", value |-> v]

\* The values the replies hold: two objects and an array.
ObjA == RawResult({"patterns", "custom_categories"}, <<RawP1, RawP2>>, <<RawApiDesign1>>)
ObjB == RawResult({"patterns"}, <<RawP3>>, <<>>)
JsonArray ==
    [keys |-> {}, patterns |-> <<>>, custom_categories |-> <<>>, json_type |-> "array"]

IsDict(v) == "json_type" \notin DOMAIN v

Replies == {
    <<Json(ObjA)>>,
    <<Prose, Newline, FenceJson, Newline, Json(ObjB), Newline, Fence, Newline, Prose>>,
    <<Fence, Newline, Json(ObjA), Newline, Fence>>,
    <<Prose>>,
    <<Prose, FenceJson, Newline, Prose, Json(ObjA), Newline, Fence>>,
    <<Json(JsonArray)>>}

\* The pieces of t after the first piece of one of the kinds.
RECURSIVE AfterFirst(_, _)
AfterFirst(t, kinds) ==
    IF t = <<>> THEN <<>>
    ELSE IF Head(t).kind \in kinds THEN Tail(t)
    ELSE AfterFirst(Tail(t), kinds)

\* The pieces of t before the first piece of one of the kinds.
RECURSIVE BeforeFirst(_, _)
BeforeFirst(t, kinds) ==
    IF t = <<>> \/ Head(t).kind \in kinds THEN <<>>
    ELSE <<Head(t)>> \o BeforeFirst(Tail(t), kinds)

Contains(t, kinds) == \E i \in DOMAIN t : t[i].kind \in kinds

\* Lines 209-212: the content of the first fenced block, when there is one.
\* The three backticks of a bare fence also open every json fence.
ExtractFenced(t) ==
    IF Contains(t, {"fence_json"})
    THEN BeforeFirst(BeforeFirst(AfterFirst(t, {"fence_json"}), {"fence_json"}),
                     {"fence", "fence_json"})
    ELSE IF Contains(t, {"fence"})
    THEN BeforeFirst(BeforeFirst(AfterFirst(t, {"fence"}), {"fence"}), {"fence"})
    ELSE t

\* json.loads: white space around the one value is ignored; anything else
\* raises JSONDecodeError.
json_loads(t) ==
    LET body == SelectSeq(t, LAMBDA x : x.kind # "\n")
    IN  IF Len(body) = 1 /\ body[1].kind = "json"
        THEN [raises |-> FALSE, value |-> body[1].value, error |-> ""]
        ELSE [raises |-> TRUE, value |-> NoValue,
              error |-> IF body = <<>> \/ body[1].kind # "json"
                        THEN "Expecting value" ELSE "Extra data"]

\* {"raw_response": text, "parse_error": str(e)}
Sentinel(t, error) ==
    [keys |-> {"raw_response", "parse_error"}, patterns |-> <<>>,
     custom_categories |-> <<>>, raw_response |-> t, parse_error |-> error]

\* A parsing step without the except clause.
ParseReply_Propagates(t) ==
    [raises |-> json_loads(ExtractFenced(t)).raises,
     value |-> json_loads(ExtractFenced(t)).value]

\* Lines 207-217: the try block of analyze_prompts_batch.
ParseReply(t) ==
    IF json_loads(ExtractFenced(t)).raises
    THEN [raises |-> FALSE,
          value |-> Sentinel(ExtractFenced(t), json_loads(ExtractFenced(t)).error)]
    ELSE [raises |-> FALSE, value |-> json_loads(ExtractFenced(t)).value]

\* The entries of events.
ProgressEvent(args) ==
    [kind |-> "progress", args |-> args, prompts |-> <<>>, api_key |-> None,
     failed |-> FALSE, reply |-> <<>>]
CallEvent(batch, key, failed, reply) ==
    [kind |-> "model_call", args |-> <<>>, prompts |-> batch, api_key |-> key,
     failed |-> failed, reply |-> reply]

\* A callback told the 0-based index.
ProgressArgs_ZeroBased(i, bs) == <<i, Len(bs)>>

\* progress_callback(i + 1, len(batches))
ProgressArgs(i, bs) == <<i + 1, Len(bs)>>

InitAnalyze ==
    /\ pc = "start"
    /\ all_prompts \in PromptLists
    /\ \E c \in Credentials : api_key = c[1] /\ environ = c[2]
    /\ anthropic \in BOOLEAN
    /\ batch_size \in 0..MaxBatchSize
    /\ progress_callback \in {None, "callback"}
    /\ batches = <<>>
    /\ batch_i = 0
    /\ events = <<>>
    /\ ClassifyIdle /\ ExtractIdle /\ MergeIdle /\ ResultIdle /\ ReviewIdle /\ RenderIdle
    /\ CollectIdle

\* Lines 282-286: the key is resolved (ValueError without one) and the prompts
\* are batched (range() raises ValueError for a step of 0).
Begin ==
    /\ pc = "start"
    /\ LET k == IF ~Truthy(api_key) THEN get_api_key(environ)
                ELSE [raises |-> FALSE, key |-> api_key]
       IN  IF k.raises
           THEN /\ pc' = "raised"
                /\ UNCHANGED <<api_key, batches>>
           ELSE IF batch_size = 0
           THEN /\ pc' = "raised"
                /\ api_key' = k.key
                /\ UNCHANGED batches
           ELSE /\ pc' = "loop"
                /\ api_key' = k.key
                /\ batches' = batch_prompts(all_prompts, batch_size)
    /\ UNCHANGED <<all_prompts, environ, anthropic, batch_size, progress_callback,
                   batch_i, events, classifyVars, extractVars, mergeVars, result,
                   reviewVars, renderVars, collectVars>>

\* Lines 289-290.
NotifyProgress ==
    /\ pc = "loop"
    /\ batch_i < Len(batches)
    /\ Truthy(progress_callback)
    /\ events' = Append(events, ProgressEvent(ProgressArgs(batch_i, batches)))
    /\ pc' = "call"
    /\ UNCHANGED <<all_prompts, api_key, environ, anthropic, batch_size,
                   progress_callback, batches, batch_i, classifyVars, extractVars,
                   mergeVars, result, reviewVars, renderVars, collectVars>>

\* The loop is at line 292.
AtCall ==
    \/ pc = "call"
    \/ pc = "loop" /\ batch_i < Len(batches) /\ ~Truthy(progress_callback)

\* Lines 180-184: without the anthropic package the first batch raises.
ImportFails ==
    /\ AtCall
    /\ ~anthropic
    /\ pc' = "raised"
    /\ UNCHANGED <<analyzeVars, classifyVars, extractVars, mergeVars, result,
                   reviewVars, renderVars, collectVars>>

\* client.messages.create raises (network, authentication, rate limit): the
\* exception leaves analyze_all_prompts.
TransportFails ==
    /\ AtCall
    /\ anthropic
    /\ events' = Append(events, CallEvent(batches[batch_i + 1], api_key, TRUE, <<>>))
    /\ pc' = "raised"
    /\ UNCHANGED <<all_prompts, api_key, environ, anthropic, batch_size,
                   progress_callback, batches, batch_i, classifyVars, extractVars,
                   mergeVars, result, reviewVars, renderVars, collectVars>>

\* Lines 292-293: the model answers, the reply is parsed, the result appended.
DispatchBatch ==
    /\ AtCall
    /\ anthropic
    /\ \E reply \in Replies :
          /\ events' = Append(events, CallEvent(batches[batch_i + 1], api_key, FALSE, reply))
          /\ IF ParseReply(reply).raises
             THEN /\ pc' = "raised"
                  /\ UNCHANGED <<results, batch_i>>
             ELSE /\ results' = Append(results, ParseReply(reply).value)
                  /\ batch_i' = batch_i + 1
                  /\ pc' = "loop"
    /\ UNCHANGED <<all_prompts, api_key, environ, anthropic, batch_size,
                   progress_callback, batches, classifyVars, extractVars, result,
                   reviewVars, renderVars, collectVars>>

\* Lines 295-299: a result that is not a dict has no get (AttributeError).
ReturnMerged ==
    /\ pc = "loop"
    /\ batch_i = Len(batches)
    /\ IF \E k \in DOMAIN results : ~IsDict(results[k])
       THEN /\ pc' = "raised"
            /\ UNCHANGED result
       ELSE /\ pc' = "returned"
            /\ result' = [merge_pattern_results(results) EXCEPT
                   !.total_prompts_analyzed = Len(all_prompts),
                   !.sessions_analyzed =
                       Cardinality({all_prompts[k].session_id : k \in DOMAIN all_prompts})]
    /\ UNCHANGED <<analyzeVars, classifyVars, extractVars, mergeVars, reviewVars,
                   renderVars, collectVars>>

NextAnalyze ==
    \/ Begin
    \/ NotifyProgress
    \/ ImportFails
    \/ TransportFails
    \/ DispatchBatch
    \/ ReturnMerged

SpecAnalyze == InitAnalyze /\ [][NextAnalyze]_vars

\* The lengths of the batches of a batching.
BatchLengths(bs) == [k \in DOMAIN bs |-> Len(bs[k])]

\* C16: for batch_size >= 1 the batches are contiguous pieces of the input in
\* input order whose concatenation is the input: each is non-empty and holds
\* at most batch_size prompts, each but possibly the last holds exactly
\* batch_size, an empty input gives no batch, and the boundaries are the same
\* whatever the session_id of the prompts.
C16_BatchesPartitionInput ==
    (pc \in {"loop", "call", "returned"} /\ batch_size >= 1) =>
        /\ Flatten(batches) = all_prompts
        /\ \A k \in DOMAIN batches :
              /\ Len(batches[k]) >= 1
              /\ Len(batches[k]) <= batch_size
              /\ k < Len(batches) => Len(batches[k]) = batch_size
        /\ all_prompts = <<>> => batches = <<>>
        /\ \A other \in PromptLists :
              Len(other) = Len(all_prompts)
              => BatchLengths(batch_prompts(other, batch_size)) = BatchLengths(batches)

\* Three prompts batched by two: the first batch mixes two sessions, the
\* second is shorter and continues the session the first ended with.
C16_Witness ==
    /\ pc = "loop"
    /\ batch_size = 2
    /\ Len(batches) = 2
    /\ Len(batches[2]) = 1
    /\ batches[1][1].session_id # batches[1][2].session_id
    /\ batches[1][2].session_id = batches[2][1].session_id

\* The model calls among the events ev, in order.
CallsOf(ev) == SelectSeq(ev, LAMBDA e : e.kind = "model_call")

\* The number of events of a kind among the first n events of ev.
CountKind(ev, kind, n) == Cardinality({e \in 1..n : ev[e].kind = kind})

\* The reply text cannot be parsed as JSON, fenced block extracted or not.
Unparseable(t) == json_loads(ExtractFenced(t)).raises

\* The number of patterns the parseable replies of the calls cs hold.
RECURSIVE ParsedPatternCount(_)
ParsedPatternCount(cs) ==
    IF cs = <<>> THEN 0
    ELSE (IF Unparseable(Head(cs).reply) THEN 0
          ELSE PatternCount(json_loads(ExtractFenced(Head(cs).reply)).value))
         + ParsedPatternCount(Tail(cs))

AnalysisOf(ps, rs) ==
    [merge_pattern_results([k \in DOMAIN rs |-> ParseReply(rs[k]).value]) EXCEPT
        !.total_prompts_analyzed = Len(ps),
        !.sessions_analyzed = Cardinality({ps[k].session_id : k \in DOMAIN ps})]

\* The callback is advisory: the model calls are those of the batches, in
\* order, and the returned result is the one the replies determine.
Advisory ==
    /\ \A k \in DOMAIN CallsOf(events) : CallsOf(events)[k].prompts = batches[k]
    /\ pc = "returned" =>
          /\ Len(CallsOf(events)) = Len(batches)
          /\ result = AnalysisOf(all_prompts,
                                 [k \in DOMAIN CallsOf(events) |-> CallsOf(events)[k].reply])

\* The callback fires once per batch with (1-based index, number of batches).
OncePerBatch ==
    /\ ~Truthy(progress_callback) => CountKind(events, "progress", Len(events)) = 0
    /\ \A e \in DOMAIN events :
          events[e].kind = "progress"
          => events[e].args = <<CountKind(events, "progress", e), Len(batches)>>
    /\ (pc = "returned" /\ Truthy(progress_callback))
       => CountKind(events, "progress", Len(events)) = Len(batches)

RECURSIVE WalkEntries(_, _, _)
WalkEntries(loglines, i, ps) ==
    IF i > Len(loglines) THEN ps
    ELSE IF EntryOutcome(loglines[i]) = "skip" THEN WalkEntries(loglines, i + 1, ps)
    ELSE IF EntryOutcome(loglines[i]) = "emit"
    THEN WalkEntries(loglines, i + 1, Append(ps, PromptOf(loglines[i])))
    ELSE ExceptHandler(ps).prompts

extract_user_prompts(s) ==
    IF s.raises THEN ExceptHandler(<<>>).prompts
    ELSE WalkEntries(s.loglines, 1, <<>>)

\* The session files of the walk: one holding a prompt, one holding only a
\* too short text, one that cannot be parsed.
UserEntry(t) == [type |-> "user", message |-> Message(StrContent(t))]
SessionFiles == {
    [raises |-> FALSE, loglines |-> Stamp(<<UserEntry(<<"f", "i", "x", " ", "i", "t">>)>>)],
    [raises |-> FALSE, loglines |-> Stamp(<<UserEntry(<<"o", "k">>)>>)],
    ParseError}

\* The limit argument: None, or an integer.
Limit(n) == [given |-> TRUE, n |-> n]
Limits   == {NoLimit} \cup {Limit(n) : n \in 0..MaxLimit}

\* find_all_sessions: a list of projects, each with a name and its sessions
\* (path, mtime); file is what parsing the file at that path gives.
ProjectNames == <<"proj1", "proj2">>

SessionEntry(p, j, file) ==
    [path |-> [parent |-> ProjectNames[p], stem |-> "session" \o ToString(j),
               suffix |-> ".jsonl"],
     mtime |-> j,
     file |-> file]

SessionLists == UNION {[1..n -> SessionFiles] : n \in 0..MaxSessions}

Walks ==
    {[p \in DOMAIN ProjectNames |->
         [name |-> ProjectNames[p],
          sessions |-> [j \in DOMAIN f[p] |-> SessionEntry(p, j, f[p][j])]]]
     : f \in [DOMAIN ProjectNames -> SessionLists]}

\* str(session_path)
PathStr(path) == path.parent \o "/" \o path.stem \o path.suffix

\* The dict yielded for a session.
Bundle(project, sess, ps) ==
    [session_id |-> sess.path.stem,
     project |-> project.name,
     session_path |-> PathStr(sess.path),
     mtime |-> sess.mtime,
     prompts |-> ps]

\* limit and session_count >= limit
LimitReached(lim, count) == lim.given /\ lim.n # 0 /\ count >= lim.n

InitCollect ==
    /\ pc = "walk"
    /\ projects \in Walks
    /\ limit \in Limits
    /\ project_i = 1
    /\ session_j = 1
    /\ session_count = 0
    /\ extracted = <<>>
    /\ yielded = <<>>
    /\ ClassifyIdle /\ ExtractIdle /\ MergeIdle /\ ResultIdle /\ ReviewIdle /\ RenderIdle
    /\ AnalyzeIdle

\* The loops are at a session of a project.
AtSession ==
    /\ pc = "walk"
    /\ project_i <= Len(projects)
    /\ session_j <= Len(projects[project_i].sessions)

\* The inner loop is exhausted: the outer loop takes the next project.
NextProject ==
    /\ pc = "walk"
    /\ project_i <= Len(projects)
    /\ session_j > Len(projects[project_i].sessions)
    /\ project_i' = project_i + 1
    /\ session_j' = 1
    /\ UNCHANGED <<pc, projects, limit, session_count, extracted, yielded,
                   classifyVars, extractVars, mergeVars, result, reviewVars,
                   renderVars, analyzeVars>>

\* Lines 162-163.
StopAtLimit ==
    /\ AtSession
    /\ LimitReached(limit, session_count)
    /\ pc' = "returned"
    /\ UNCHANGED <<collectVars, classifyVars, extractVars, mergeVars, result,
                   reviewVars, renderVars, analyzeVars>>

\* Lines 165-172: a session without prompts is passed over.
SkipSession ==
    /\ AtSession
    /\ ~LimitReached(limit, session_count)
    /\ extract_user_prompts(projects[project_i].sessions[session_j].file) = <<>>
    /\ extracted' = Append(extracted, projects[project_i].sessions[session_j].path)
    /\ session_j' = session_j + 1
    /\ UNCHANGED <<pc, projects, limit, project_i, session_count, yielded,
                   classifyVars, extractVars, mergeVars, result, reviewVars,
                   renderVars, analyzeVars>>

\* Lines 165-182: the bundle is yielded and, when the consumer asks for the
\* next one, the session is counted.
YieldBundle ==
    /\ AtSession
    /\ ~LimitReached(limit, session_count)
    /\ extract_user_prompts(projects[project_i].sessions[session_j].file) # <<>>
    /\ extracted' = Append(extracted, projects[project_i].sessions[session_j].path)
    /\ yielded' = Append(yielded,
           Bundle(projects[project_i], projects[project_i].sessions[session_j],
                  extract_user_prompts(projects[project_i].sessions[session_j].file)))
    /\ session_count' = session_count + 1
    /\ session_j' = session_j + 1
    /\ UNCHANGED <<pc, projects, limit, project_i,
                   classifyVars, extractVars, mergeVars, result, reviewVars,
                   renderVars, analyzeVars>>

\* The outer loop is exhausted: the generator ends.
WalkEnds ==
    /\ pc = "walk"
    /\ project_i > Len(projects)
    /\ pc' = "returned"
    /\ UNCHANGED <<collectVars, classifyVars, extractVars, mergeVars, result,
                   reviewVars, renderVars, analyzeVars>>

NextCollect ==
    \/ NextProject
    \/ StopAtLimit
    \/ SkipSession
    \/ YieldBundle
    \/ WalkEnds

SpecCollect == InitCollect /\ [][NextCollect]_vars

\* C15: for every limit L that is not None at most L bundles are yielded, once
\* L bundles are yielded no further session is taken from the walk, and no
\* yielded bundle has an empty prompts list.
C15_LimitCapsSessions ==
    limit.given =>
        /\ Len(yielded) <= limit.n
        /\ Len(yielded) >= limit.n
           => /\ extracted # <<>> => yielded # <<>>
              /\ yielded # <<>>
                 => PathStr(extracted[Len(extracted)]) = yielded[Len(yielded)].session_path
        /\ \A k \in DOMAIN yielded : yielded[k].prompts # <<>>

\* The same for the limits the code treats as a cap, the positive ones.
C15_PositiveLimitCapsSessions ==
    (limit.given /\ limit.n >= 1) =>
        /\ Len(yielded) <= limit.n
        /\ Len(yielded) >= limit.n
           => PathStr(extracted[Len(extracted)]) = yielded[Len(yielded)].session_path
        /\ \A k \in DOMAIN yielded : yielded[k].prompts # <<>>

====
